---- MODULE Spec2Model ----
(***************************************************************************)
(* State-machine model of the `builder` command-line tool (src/main.rs):   *)
(* argument matching, the directory scan that resolves the project kind,   *)
(* and the lint / build / run phases with their child processes.           *)
(*                                                                         *)
(* A Rust String is a tuple of one-character strings, so that starts_with, *)
(* ends_with, find, truncate and the two regular expressions are computed  *)
(* on characters as the code computes them.                                *)
(***************************************************************************)
EXTENDS Integers, Sequences, FiniteSets, TLC

(***************************************************************************)
(* Bounds of the model.                                                    *)
(***************************************************************************)
MaxArgs == 3        \* command-line tokens after argv[0]
MaxEntries == 3     \* directory entries returned by read_dir
MaxLines == 2       \* lines of a manifest file
MaxCode == 1        \* child exit codes range over 0..MaxCode

(***************************************************************************)
(* String literals.                                                        *)
(***************************************************************************)
Makefile == <<"M", "a", "k", "e", "f", "i", "l", "e">>
Cargo_toml == <<"C", "a", "r", "g", "o", ".", "t", "o", "m", "l">>
main_rs == <<"m", "a", "i", "n", ".", "r", "s">>
main_cpp == <<"m", "a", "i", "n", ".", "c", "p", "p">>
main_js == <<"m", "a", "i", "n", ".", "j", "s">>
main_c == <<"m", "a", "i", "n", ".", "c">>
main_lua == <<"m", "a", "i", "n", ".", "l", "u", "a">>
main_sh == <<"m", "a", "i", "n", ".", "s", "h">>
main_txt == <<"m", "a", "i", "n", ".", "t", "x", "t">>
index_js == <<"i", "n", "d", "e", "x", ".", "j", "s">>
test_lua == <<"t", "e", "s", "t", ".", "l", "u", "a">>
run_sh == <<"r", "u", "n", ".", "s", "h">>
README_md == <<"R", "E", "A", "D", "M", "E", ".", "m", "d">>
main_ == <<"m", "a", "i", "n">>

\* Lines a manifest file is made of.
line_TARGET == <<"T", "A", "R", "G", "E", "T", " ", ":", "=", " ", "f", "o", "o">>
line_name == <<"n", "a", "m", "e", " ", "=", " ", "\"", "d", "e", "m", "o", "\"">>
line_CC == <<"C", "C", " ", "=", " ", "g", "c", "c">>

(***************************************************************************)
(* str methods used by the code.                                           *)
(***************************************************************************)
starts_with(s, p) ==
    /\ Len(s) >= Len(p)
    /\ SubSeq(s, 1, Len(p)) = p

ends_with(s, p) ==
    /\ Len(s) >= Len(p)
    /\ SubSeq(s, Len(s) - Len(p) + 1, Len(s)) = p

\* String::find(".") : byte index (from 0) of the first match, 0 - 1 if none.
find(s, c) ==
    IF \E i \in 1..Len(s) : s[i] = c
    THEN (CHOOSE i \in 1..Len(s) : s[i] = c /\ \A j \in 1..(i - 1) : s[j] # c) - 1
    ELSE 0 - 1

\* String::truncate(n) : keep the first n characters.
truncate(s, n) == SubSeq(s, 1, n)

\* format!("./{}", binary)
dot_slash(s) == <<".", "/">> \o s

(***************************************************************************)
(* The two regular expressions of get_binary, matched against one line.    *)
(* \s is a space or a tab, \w a letter, a digit or an underscore; both     *)
(* expressions are anchored at the start of the line and end with the      *)
(* greedy capture group (\w+).                                             *)
(***************************************************************************)
Whitespace == {" ", "\t"}

WordChars ==
    {"a", "b", "c", "d", "e", "f", "g", "h", "i", "j", "k", "l", "m",
     "n", "o", "p", "q", "r", "s", "t", "u", "v", "w", "x", "y", "z",
     "A", "B", "C", "D", "E", "F", "G", "H", "I", "J", "K", "L", "M",
     "N", "O", "P", "Q", "R", "S", "T", "U", "V", "W", "X", "Y", "Z",
     "0", "1", "2", "3", "4", "5", "6", "7", "8", "9", "_"}

\* Position of the first character at or after i that is not in cls
\* (Len(line) + 1 when the run reaches the end of the line).
RECURSIVE SkipRun(_, _, _)
SkipRun(line, i, cls) ==
    IF i <= Len(line) /\ line[i] \in cls
    THEN SkipRun(line, i + 1, cls)
    ELSE i

\* line has the literal lit at position i.
LitAt(line, i, lit) ==
    /\ i + Len(lit) - 1 <= Len(line)
    /\ SubSeq(line, i, i + Len(lit) - 1) = lit

NoMatch == [tag |-> "None", val |-> <<>>]

Some(s) == [tag |-> "Some", val |-> s]

\* Regex::new("^TARGET\\s*:=\\s*(\\w+)").captures(line).get(1)
TargetRegex(line) ==
    LET a == SkipRun(line, 7, Whitespace)
        b == SkipRun(line, a + 2, Whitespace)
        e == SkipRun(line, b, WordChars)
    IN  IF /\ LitAt(line, 1, <<"T", "A", "R", "G", "E", "T">>)
           /\ LitAt(line, a, <<":", "=">>)
           /\ e > b
        THEN Some(SubSeq(line, b, e - 1))
        ELSE NoMatch

\* Regex::new("^name\\s*=\\s*\"(\\w+)\"").captures(line).get(1)
NameRegex(line) ==
    LET a == SkipRun(line, 5, Whitespace)
        b == SkipRun(line, a + 1, Whitespace)
        e == SkipRun(line, b + 1, WordChars)
    IN  IF /\ LitAt(line, 1, <<"n", "a", "m", "e">>)
           /\ LitAt(line, a, <<"=">>)
           /\ LitAt(line, b, <<"\"">>)
           /\ e > b + 1
           /\ LitAt(line, e, <<"\"">>)
        THEN Some(SubSeq(line, b + 1, e - 1))
        ELSE NoMatch

(***************************************************************************)
(* enum Target.  A value is a record of the variant and the String the     *)
(* variant carries (empty for Cargo and Make).  Option<Target> is a Target *)
(* or NoTarget.                                                            *)
(***************************************************************************)
Cargo == [kind |-> "Cargo", file |-> <<>>]
Make == [kind |-> "Make", file |-> <<>>]
Cpp(x) == [kind |-> "Cpp", file |-> x]
C(x) == [kind |-> "C", file |-> x]
Rust(x) == [kind |-> "Rust", file |-> x]
Js(x) == [kind |-> "Js", file |-> x]
Lua(x) == [kind |-> "Lua", file |-> x]
Bash(x) == [kind |-> "Bash", file |-> x]
NoTarget == [kind |-> "None", file |-> <<>>]

(***************************************************************************)
(* What File::open and the line reader find when get_binary looks up a     *)
(* manifest: a regular file with its lines, nothing that can be opened     *)
(* (removed, no permission), or a directory (open succeeds, every read     *)
(* fails).                                                                 *)
(***************************************************************************)
RegularFile(lines) == [st |-> "file", lines |-> lines]
Unopenable == [st |-> "unopenable", lines |-> <<>>]
Directory == [st |-> "directory", lines |-> <<>>]
NotRead == [st |-> "not read", lines |-> <<>>]

\* Outcomes of get_binary that are not a return value.
Panic == [tag |-> "panic", val |-> <<>>]
Diverge == [tag |-> "diverge", val |-> <<>>]

\* target.captures(&line).get(1) with the expression of the arm.
captures(kind, line) ==
    IF kind = "Make" THEN TargetRegex(line) ELSE NameRegex(line)

\* for line in lines ... return Some(capture) of the first matching line.
RECURSIVE FirstCapture(_, _, _)
FirstCapture(kind, lines, i) ==
    IF i > Len(lines) THEN NoMatch
    ELSE IF captures(kind, lines[i]).tag = "Some" THEN captures(kind, lines[i])
    ELSE FirstCapture(kind, lines, i + 1)

\* The Make and Cargo arms: File::open(..).unwrap() panics when the file
\* cannot be opened; on a directory every read is an Err that flatten()
\* skips, so the loop never ends.
ReadManifest(kind, fs) ==
    IF fs.st = "unopenable" THEN Panic
    ELSE IF fs.st = "directory" THEN Diverge
    ELSE FirstCapture(kind, fs.lines, 1)

\* Target::get_filename
get_filename(self) ==
    IF self.kind = "Make" THEN Some(Makefile)
    ELSE IF self.kind = "Cargo" THEN Some(Cargo_toml)
    ELSE Some(self.file)

\* get_binary with the Cpp / Rust / C arm returning the path untruncated.
get_binary_NoTruncate(self, fs) ==
    IF self.kind \in {"Bash", "Js", "Lua", "Cpp", "Rust", "C"} THEN Some(self.file)
    ELSE IF self.kind = "Make" THEN ReadManifest("Make", fs)
    ELSE ReadManifest("Cargo", fs)

\* get_binary with the Cargo arm falling back to an empty name when no
\* line matches.
get_binary_CargoDefault(self, fs) ==
    IF self.kind \in {"Bash", "Js", "Lua"} THEN Some(self.file)
    ELSE IF self.kind \in {"Cpp", "Rust", "C"} THEN
        IF find(self.file, ".") < 0 THEN Panic
        ELSE Some(truncate(self.file, find(self.file, ".")))
    ELSE IF self.kind = "Make" THEN ReadManifest("Make", fs)
    ELSE IF ReadManifest("Cargo", fs) = NoMatch THEN Some(<<>>)
    ELSE ReadManifest("Cargo", fs)

\* Target::get_binary; fs is the manifest as the file system presents it
\* at the time of the call (read by the Make and Cargo arms only).
get_binary(self, fs) ==
    IF self.kind \in {"Bash", "Js", "Lua"} THEN Some(self.file)
    ELSE IF self.kind \in {"Cpp", "Rust", "C"} THEN
        IF find(self.file, ".") < 0 THEN Panic
        ELSE Some(truncate(self.file, find(self.file, ".")))
    ELSE IF self.kind = "Make" THEN ReadManifest("Make", fs)
    ELSE ReadManifest("Cargo", fs)

\* handle_build_result ignoring the return code.
handle_build_result_AlwaysTrue(return_code) == TRUE

\* Target::handle_build_result
handle_build_result(return_code) == ~(return_code # 0)

\* update_target with the Cargo arm for old placed before the Make arm for
\* new.
update_target_CargoFirst(old_target, new_target) ==
    IF old_target = Make THEN Make
    ELSE IF old_target = Cargo THEN Cargo
    ELSE IF new_target = Make THEN Make
    ELSE IF new_target = Cargo THEN Cargo
    ELSE IF new_target # NoTarget THEN new_target
    ELSE NoTarget

\* update_target keeping an extension-based old against a new Cargo.
update_target_KeepOld(old_target, new_target) ==
    IF old_target = Make THEN Make
    ELSE IF new_target = Make THEN Make
    ELSE IF old_target # NoTarget THEN old_target
    ELSE IF new_target = Cargo THEN Cargo
    ELSE IF new_target # NoTarget THEN new_target
    ELSE NoTarget

\* update_target: the match arms in their order.
update_target(old_target, new_target) ==
    IF old_target = Make THEN Make
    ELSE IF new_target = Make THEN Make
    ELSE IF old_target = Cargo THEN Cargo
    ELSE IF new_target = Cargo THEN Cargo
    ELSE IF new_target # NoTarget THEN new_target
    ELSE NoTarget

\* endings without the ".sh" alternative of the Bash arm.
endings_NoSh(file_name) ==
    IF ends_with(file_name, <<".", "j", "s">>) THEN Js(file_name)
    ELSE IF \/ ends_with(file_name, <<".", "c", "p", "p">>)
            \/ ends_with(file_name, <<".", "c", "x", "x">>) THEN Cpp(file_name)
    ELSE IF ends_with(file_name, <<".", "l", "u", "a">>) THEN Lua(file_name)
    ELSE IF ends_with(file_name, <<".", "b", "a", "s", "h">>) THEN Bash(file_name)
    ELSE IF ends_with(file_name, <<".", "r", "s">>) THEN Rust(file_name)
    ELSE IF ends_with(file_name, <<".", "c">>) THEN C(file_name)
    ELSE NoTarget

\* endings
endings(file_name) ==
    IF ends_with(file_name, <<".", "j", "s">>) THEN Js(file_name)
    ELSE IF \/ ends_with(file_name, <<".", "c", "p", "p">>)
            \/ ends_with(file_name, <<".", "c", "x", "x">>) THEN Cpp(file_name)
    ELSE IF ends_with(file_name, <<".", "l", "u", "a">>) THEN Lua(file_name)
    ELSE IF \/ ends_with(file_name, <<".", "b", "a", "s", "h">>)
            \/ ends_with(file_name, <<".", "s", "h">>) THEN Bash(file_name)
    ELSE IF ends_with(file_name, <<".", "r", "s">>) THEN Rust(file_name)
    ELSE IF ends_with(file_name, <<".", "c">>) THEN C(file_name)
    ELSE NoTarget

(***************************************************************************)
(* Words of the command lines and of the process arguments.                *)
(***************************************************************************)
s_builder == <<"b", "u", "i", "l", "d", "e", "r">>
s_build == <<"b", "u", "i", "l", "d">>
s_run == <<"r", "u", "n">>
s_release == <<"r", "e", "l", "e", "a", "s", "e">>
s_lint == <<"l", "i", "n", "t">>
s_verbose == <<"-", "-", "v", "e", "r", "b", "o", "s", "e">>
s_make == <<"m", "a", "k", "e">>
s_cargo == <<"c", "a", "r", "g", "o">>
s_fmt == <<"f", "m", "t">>
s_dash_release == <<"-", "-", "r", "e", "l", "e", "a", "s", "e">>
s_gpp == <<"g", "+", "+">>
s_gcc == <<"g", "c", "c">>
s_o == <<"-", "o">>
s_O3 == <<"-", "O", "3">>
s_rustc == <<"r", "u", "s", "t", "c">>
s_eslint == <<"e", "s", "l", "i", "n", "t">>
s_env == <<"-", "-", "e", "n", "v">>
s_es6 == <<"e", "s", "6">>
s_luacheck == <<"l", "u", "a", "c", "h", "e", "c", "k">>
s_q == <<"-", "q">>
s_shellcheck == <<"s", "h", "e", "l", "l", "c", "h", "e", "c", "k">>
s_norc == <<"-", "-", "n", "o", "r", "c">>
s_severity_style == <<"-", "-", "s", "e", "v", "e", "r", "i", "t", "y", "=", "s", "t", "y", "l", "e">>
s_severity_warning == <<"-", "-", "s", "e", "v", "e", "r", "i", "t", "y", "=", "w", "a", "r", "n", "i", "n", "g">>
s_node == <<"n", "o", "d", "e">>
s_lua == <<"l", "u", "a">>
s_bash == <<"b", "a", "s", "h">>

(***************************************************************************)
(* The command built by each phase: the program followed by its arguments. *)
(* get_binary(..).unwrap() in the Cpp and C arms reads no file.            *)
(***************************************************************************)
opt(cond, word) == IF cond THEN <<word>> ELSE <<>>

\* main, lint block: let mut command = match target { ... }
lint_command(target, release) ==
    IF target.kind = "Make" THEN <<s_make>> \o opt(release, s_lint)
    ELSE IF target.kind = "Cargo" THEN <<s_cargo, s_fmt>>
    ELSE IF target.kind = "Cpp" THEN
        <<s_gpp, target.file, s_o, get_binary(target, NotRead).val>> \o opt(release, s_O3)
    ELSE IF target.kind = "C" THEN
        <<s_gcc, target.file, s_o, get_binary(target, NotRead).val>> \o opt(release, s_O3)
    ELSE IF target.kind = "Rust" THEN <<s_rustc, target.file>>
    ELSE IF target.kind = "Js" THEN <<s_eslint, s_env, s_es6, target.file>>
    ELSE IF target.kind = "Lua" THEN <<s_luacheck, s_q, target.file>>
    ELSE <<s_shellcheck, s_norc, s_severity_style, target.file>>

\* main, build block: let mut command = match target { ... }
build_command(target, release) ==
    IF target.kind = "Make" THEN <<s_make>> \o opt(release, s_release)
    ELSE IF target.kind = "Cargo" THEN <<s_cargo, s_build>> \o opt(release, s_dash_release)
    ELSE IF target.kind = "Cpp" THEN
        <<s_gpp, target.file, s_o, get_binary(target, NotRead).val>> \o opt(release, s_O3)
    ELSE IF target.kind = "C" THEN
        <<s_gcc, target.file, s_o, get_binary(target, NotRead).val>> \o opt(release, s_O3)
    ELSE IF target.kind = "Rust" THEN <<s_rustc, target.file>>
    ELSE IF target.kind = "Js" THEN <<s_eslint, s_env, s_es6, target.file>>
    ELSE IF target.kind = "Lua" THEN <<s_luacheck, s_q, target.file>>
    ELSE <<s_shellcheck, s_norc, s_severity_warning, target.file>>

\* main, run block: let mut command = match target { ... }
run_command(target, binary, release) ==
    IF target.kind \in {"Make", "C", "Cpp", "Rust"} THEN <<dot_slash(binary)>>
    ELSE IF target.kind = "Cargo" THEN <<s_cargo, s_run>> \o opt(release, s_dash_release)
    ELSE IF target.kind = "Js" THEN <<s_node, dot_slash(binary)>>
    ELSE IF target.kind = "Lua" THEN <<s_lua, dot_slash(binary)>>
    ELSE <<s_bash, dot_slash(binary)>>

(***************************************************************************)
(* State of one invocation.                                                *)
(***************************************************************************)
VARIABLES
    argv,       \* std::env::args(), not yet matched
    run, build, release, lint,      \* the four flags of main
    entries,    \* the listing read_dir iterates over, in iteration order
    pos,        \* number of entries the for loop has taken
    target,     \* Option<Target>
    pc,         \* position in main
    exit,       \* exit status of the process, Running until it ends
    spawns,     \* the Command::spawn calls so far, each with its outcome
    out,        \* the lines printed to stdout (their fixed text)
    binary,     \* let binary = target.get_binary()
    manifest,   \* what the latest get_binary found on opening its manifest
    probe       \* a function under test with its arguments (SpecFn only)

vars == <<argv, run, build, release, lint, entries, pos, target, pc, exit,
          spawns, out, binary, manifest, probe>>

flags == <<run, build, release, lint>>

Running == 0 - 1        \* the process has not ended
ExitOk == 0             \* main returned Ok(())
ExitErr == 1            \* main returned Err
ExitNoTarget == 2       \* process::exit(2)
ExitPanic == 101        \* unwrap / expect failed
WaitErrCode == 127      \* map_or(127, ..) when wait() is an Err

NoProbe == [fn |-> "none", a |-> NoTarget, b |-> NoTarget, out |-> NoTarget, done |-> FALSE]

(***************************************************************************)
(* Inputs.                                                                 *)
(***************************************************************************)
RECURSIVE SeqsOfLen(_, _)
SeqsOfLen(S, n) ==
    IF n = 0 THEN {<<>>}
    ELSE {Append(q, x) : q \in SeqsOfLen(S, n - 1), x \in S}

SeqsUpTo(S, n) == UNION {SeqsOfLen(S, k) : k \in 0..n}

Range(q) == {q[i] : i \in DOMAIN q}

Tokens == {s_build, s_run, s_release, s_lint, s_verbose}

Names == {Makefile, Cargo_toml, main_rs, main_cpp, main_js, main_c, main_lua,
          main_sh, main_txt, index_js, README_md}

\* A directory lists each name once.
Listings == {q \in SeqsUpTo(Names, MaxEntries) : Cardinality(Range(q)) = Len(q)}

ManifestLines == {line_TARGET, line_name, line_CC}

\* What opening the manifest of a Make or Cargo target can find.
ManifestStates ==
    {RegularFile(ls) : ls \in SeqsUpTo(ManifestLines, MaxLines)} \cup {Unopenable, Directory}

\* The manifest get_binary opens for this target (none for the other kinds).
Lookups(t) == IF t.kind \in {"Make", "Cargo"} THEN ManifestStates ELSE {NotRead}

\* child.wait(): Ok with an exit code, Ok without one (killed by a signal),
\* or Err.
WaitOutcomes ==
    {[st |-> "exited", code |-> c] : c \in 0..MaxCode}
        \cup {[st |-> "signaled", code |-> 0 - 1], [st |-> "wait failed", code |-> 0 - 1]}

\* .map_or(127, |code| code.code().expect(..)) for an outcome with a code
\* or an Err.
wait_ret(o) == IF o.st = "wait failed" THEN WaitErrCode ELSE o.code

Spawned(phase, cmd, st) == [phase |-> phase, cmd |-> cmd, st |-> st, code |-> 0 - 1]

Finished(o) ==
    [spawns EXCEPT ![Len(spawns)] = [@ EXCEPT !.st = o.st, !.code = o.code]]

(***************************************************************************)
(* Init: the process has started, nothing is matched or read yet.          *)
(***************************************************************************)
Init ==
    /\ argv \in {<<s_builder>> \o a : a \in SeqsUpTo(Tokens, MaxArgs)}
    /\ run = FALSE /\ build = FALSE /\ release = FALSE /\ lint = FALSE
    /\ entries = <<>> /\ pos = 0
    /\ target = NoTarget
    /\ pc = "args"
    /\ exit = Running
    /\ spawns = <<>>
    /\ out = <<>>
    /\ binary = NoMatch
    /\ manifest = NotRead
    /\ probe = NoProbe

(***************************************************************************)
(* main, lines 118-126: for arg in std::env::args() { match ... }          *)
(***************************************************************************)
ParseArgs ==
    /\ pc = "args" /\ exit = Running
    /\ build' = (build \/ s_build \in Range(argv))
    /\ run' = (run \/ s_run \in Range(argv))
    /\ release' = (release \/ s_release \in Range(argv))
    /\ lint' = (lint \/ s_lint \in Range(argv))
    /\ argv' = <<>>
    /\ pc' = "read_dir"
    /\ UNCHANGED <<entries, pos, target, exit, spawns, out, binary, manifest, probe>>

(***************************************************************************)
(* main, lines 128-149: the directory scan.                                *)
(***************************************************************************)
\* std::fs::read_dir(".") succeeds
ReadDir ==
    /\ pc = "read_dir" /\ exit = Running
    /\ \E listing \in Listings : entries' = listing
    /\ pos' = 0
    /\ pc' = "scan"
    /\ UNCHANGED <<argv, flags, target, exit, spawns, out, binary, manifest, probe>>

\* std::fs::read_dir(".").expect("Faild to read dir") panics
ReadDirFail ==
    /\ pc = "read_dir" /\ exit = Running
    /\ exit' = ExitPanic
    /\ UNCHANGED <<argv, flags, entries, pos, target, pc, spawns, out, binary, manifest, probe>>

\* entry.starts_with("main.") || starts_with("index.") || starts_with("test.")
has_stem(entry) ==
    \/ starts_with(entry, <<"m", "a", "i", "n", ".">>)
    \/ starts_with(entry, <<"i", "n", "d", "e", "x", ".">>)
    \/ starts_with(entry, <<"t", "e", "s", "t", ".">>)

\* scan_entry assigning the classified source instead of folding it while
\* target is None.
scan_entry_Assign(old, entry) ==
    IF entry = Makefile THEN update_target(old, Make)
    ELSE IF entry = Cargo_toml THEN update_target(old, Cargo)
    ELSE IF has_stem(entry) /\ endings(entry) # NoTarget THEN endings(entry)
    ELSE old

\* scan_entry without the target.is_none() guard of the stem branch.
scan_entry_LastWins(old, entry) ==
    IF entry = Makefile THEN update_target(old, Make)
    ELSE IF entry = Cargo_toml THEN update_target(old, Cargo)
    ELSE IF has_stem(entry) THEN update_target(old, endings(entry))
    ELSE old

\* The body of the for loop for one entry: the new value of target.
scan_entry(old, entry) ==
    IF entry = Makefile THEN update_target(old, Make)
    ELSE IF entry = Cargo_toml THEN update_target(old, Cargo)
    ELSE IF old = NoTarget /\ has_stem(entry) THEN update_target(old, endings(entry))
    ELSE old

\* One turn of the for loop: the iterator is exhausted, or the next entry
\* is matched; "Makefile" breaks out of the loop.
ScanNext ==
    /\ pc = "scan" /\ exit = Running
    /\ IF pos = Len(entries)
       THEN /\ pc' = "scanned"
            /\ UNCHANGED <<pos, target>>
       ELSE /\ pos' = pos + 1
            /\ target' = scan_entry(target, entries[pos + 1])
            /\ pc' = IF entries[pos + 1] = Makefile THEN "scanned" ELSE "scan"
    /\ UNCHANGED <<argv, flags, entries, exit, spawns, out, binary, manifest, probe>>

\* let entry = entry?.file_name(): the iterator yields an Err and main
\* returns it.
ScanError ==
    /\ pc = "scan" /\ exit = Running
    /\ pos < Len(entries)
    /\ exit' = ExitErr
    /\ UNCHANGED <<argv, flags, entries, pos, target, pc, spawns, out, binary, manifest, probe>>

\* The loop is left and its iterator dropped.
ScanEnd ==
    /\ pc = "scanned" /\ exit = Running
    /\ entries' = <<>>
    /\ pos' = 0
    /\ pc' = "lint"
    /\ UNCHANGED <<argv, flags, target, exit, spawns, out, binary, manifest, probe>>

(***************************************************************************)
(* main, lines 151-228: the lint phase.                                    *)
(***************************************************************************)
\* if lint { .. } is skipped
LintSkip ==
    /\ pc = "lint" /\ exit = Running
    /\ ~lint
    /\ pc' = "build"
    /\ UNCHANGED <<argv, flags, entries, pos, target, exit, spawns, out, binary, manifest, probe>>

\* LintNoTarget ending the process as the build and run phases do.
LintNoTarget_Exit ==
    /\ pc = "lint" /\ exit = Running
    /\ lint /\ target = NoTarget
    /\ out' = Append(out, "==== No lint target found")
    /\ exit' = ExitNoTarget
    /\ UNCHANGED <<argv, flags, entries, pos, target, pc, spawns, binary, manifest, probe>>

\* lines 225-227
LintNoTarget ==
    /\ pc = "lint" /\ exit = Running
    /\ lint /\ target = NoTarget
    /\ out' = Append(out, "==== No lint target found")
    /\ pc' = "build"
    /\ UNCHANGED <<argv, flags, entries, pos, target, exit, spawns, binary, manifest, probe>>

\* LintSpawn going on to the build phase without waiting for the child.
LintSpawn_NoWait ==
    /\ pc = "lint" /\ exit = Running
    /\ lint /\ target # NoTarget
    /\ out' = Append(out, "==== Build target")
    /\ spawns' = Append(spawns, Spawned("lint", lint_command(target, release), "running"))
    /\ pc' = "build"
    /\ UNCHANGED <<argv, flags, entries, pos, target, exit, binary, manifest, probe>>

\* lines 152-212: command.spawn() is Ok
LintSpawn ==
    /\ pc = "lint" /\ exit = Running
    /\ lint /\ target # NoTarget
    /\ out' = Append(out, "==== Build target")
    /\ spawns' = Append(spawns, Spawned("lint", lint_command(target, release), "running"))
    /\ pc' = "lint_wait"
    /\ UNCHANGED <<argv, flags, entries, pos, target, exit, binary, manifest, probe>>

\* lines 152-211, 222-224: command.spawn() is an Err
LintSpawnFail ==
    /\ pc = "lint" /\ exit = Running
    /\ lint /\ target # NoTarget
    /\ out' = out \o <<"==== Build target", "==== Failed to run lint command">>
    /\ spawns' = Append(spawns, Spawned("lint", lint_command(target, release), "failed"))
    /\ pc' = "build"
    /\ UNCHANGED <<argv, flags, entries, pos, target, exit, binary, manifest, probe>>

\* LintWait taking a child without an exit code as a failed lint.
LintWait_SignalAsFailure ==
    /\ pc = "lint_wait" /\ exit = Running
    /\ \E o \in WaitOutcomes :
        /\ spawns' = Finished(o)
        /\ out' = Append(out, IF o.st = "exited" /\ handle_build_result(o.code)
                              THEN "==== Linting Done"
                              ELSE "==== Linting Failed")
        /\ pc' = "build"
    /\ UNCHANGED <<argv, flags, entries, pos, target, exit, binary, manifest, probe>>

\* lines 213-221: child.wait() returns
LintWait ==
    /\ pc = "lint_wait" /\ exit = Running
    /\ \E o \in WaitOutcomes :
        /\ spawns' = Finished(o)
        /\ IF o.st = "signaled"
           THEN /\ exit' = ExitPanic
                /\ UNCHANGED <<pc, out>>
           ELSE /\ out' = Append(out, IF handle_build_result(wait_ret(o))
                                      THEN "==== Linting Done"
                                      ELSE "==== Linting Failed")
                /\ pc' = "build"
                /\ UNCHANGED exit
    /\ UNCHANGED <<argv, flags, entries, pos, target, binary, manifest, probe>>

(***************************************************************************)
(* main, lines 229-311: the build phase.                                   *)
(***************************************************************************)
\* BuildSkip entered on the build flag alone.
BuildSkip_IgnoreRelease ==
    /\ pc = "build" /\ exit = Running
    /\ ~build
    /\ pc' = "run"
    /\ UNCHANGED <<argv, flags, entries, pos, target, exit, spawns, out, binary, manifest, probe>>

\* if build || release { .. } is skipped
BuildSkip ==
    /\ pc = "build" /\ exit = Running
    /\ ~(build \/ release)
    /\ pc' = "run"
    /\ UNCHANGED <<argv, flags, entries, pos, target, exit, spawns, out, binary, manifest, probe>>

\* lines 307-310
BuildNoTarget ==
    /\ pc = "build" /\ exit = Running
    /\ (build \/ release) /\ target = NoTarget
    /\ out' = Append(out, "==== No build target found")
    /\ exit' = ExitNoTarget
    /\ UNCHANGED <<argv, flags, entries, pos, target, pc, spawns, binary, manifest, probe>>

\* lines 230-293: command.spawn() is Ok
BuildSpawn ==
    /\ pc = "build" /\ exit = Running
    /\ (build \/ release) /\ target # NoTarget
    /\ out' = Append(out, "==== Build target")
    /\ spawns' = Append(spawns, Spawned("build", build_command(target, release), "running"))
    /\ pc' = "build_wait"
    /\ UNCHANGED <<argv, flags, entries, pos, target, exit, binary, manifest, probe>>

\* BuildSpawnFail treating the spawn failure like a failed build.
BuildSpawnFail_Suppress ==
    /\ pc = "build" /\ exit = Running
    /\ (build \/ release) /\ target # NoTarget
    /\ out' = out \o <<"==== Build target", "==== Failed to run build command">>
    /\ spawns' = Append(spawns, Spawned("build", build_command(target, release), "failed"))
    /\ run' = FALSE
    /\ pc' = "run"
    /\ UNCHANGED <<argv, build, release, lint, entries, pos, target, exit, binary, manifest, probe>>

\* lines 230-292, 304-306: command.spawn() is an Err
BuildSpawnFail ==
    /\ pc = "build" /\ exit = Running
    /\ (build \/ release) /\ target # NoTarget
    /\ out' = out \o <<"==== Build target", "==== Failed to run build command">>
    /\ spawns' = Append(spawns, Spawned("build", build_command(target, release), "failed"))
    /\ pc' = "run"
    /\ UNCHANGED <<argv, flags, entries, pos, target, exit, binary, manifest, probe>>

\* lines 294-303: child.wait() returns
BuildWait ==
    /\ pc = "build_wait" /\ exit = Running
    /\ \E o \in WaitOutcomes :
        /\ spawns' = Finished(o)
        /\ IF o.st = "signaled"
           THEN /\ exit' = ExitPanic
                /\ UNCHANGED <<pc, out, run>>
           ELSE /\ IF handle_build_result(wait_ret(o))
                   THEN /\ out' = Append(out, "==== Build Successfull")
                        /\ UNCHANGED run
                   ELSE /\ run' = FALSE
                        /\ out' = Append(out, "==== Build Failed")
                /\ pc' = "run"
                /\ UNCHANGED exit
    /\ UNCHANGED <<argv, build, release, lint, entries, pos, target, binary, manifest, probe>>

(***************************************************************************)
(* main, lines 313-368: the run phase and the return.                      *)
(***************************************************************************)
\* if run { .. } is skipped
RunSkip ==
    /\ pc = "run" /\ exit = Running
    /\ ~run
    /\ pc' = "return"
    /\ UNCHANGED <<argv, flags, entries, pos, target, exit, spawns, out, binary, manifest, probe>>

\* RunNoTarget reporting only, as the lint phase does.
RunNoTarget_ReportOnly ==
    /\ pc = "run" /\ exit = Running
    /\ run /\ target = NoTarget
    /\ out' = Append(out, "==== No target to run found")
    /\ pc' = "return"
    /\ UNCHANGED <<argv, flags, entries, pos, target, exit, spawns, binary, manifest, probe>>

\* lines 362-365
RunNoTarget ==
    /\ pc = "run" /\ exit = Running
    /\ run /\ target = NoTarget
    /\ out' = Append(out, "==== No target to run found")
    /\ exit' = ExitNoTarget
    /\ UNCHANGED <<argv, flags, entries, pos, target, pc, spawns, binary, manifest, probe>>

\* lines 315-320: let binary = target.get_binary(); exit(2) when it is None
RunLookup ==
    /\ pc = "run" /\ exit = Running
    /\ run /\ target # NoTarget
    /\ \E fs \in Lookups(target) :
        LET r == get_binary(target, fs) IN
        /\ manifest' = fs
        /\ IF r = Panic
           THEN /\ exit' = ExitPanic
                /\ UNCHANGED <<pc, out, binary>>
           ELSE IF r = Diverge
           THEN /\ pc' = "get_binary"
                /\ UNCHANGED <<exit, out, binary>>
           ELSE IF r = NoMatch
           THEN /\ binary' = r
                /\ out' = Append(out, "==== No target to run found")
                /\ exit' = ExitNoTarget
                /\ UNCHANGED pc
           ELSE /\ binary' = r
                /\ pc' = "run_print"
                /\ UNCHANGED <<exit, out>>
    /\ UNCHANGED <<argv, flags, entries, pos, target, spawns, probe>>

\* line 321: println!(.., target.get_binary().unwrap()), a second lookup
RunPrint ==
    /\ pc = "run_print" /\ exit = Running
    /\ \E fs \in Lookups(target) :
        LET r == get_binary(target, fs) IN
        /\ manifest' = fs
        /\ IF r = Panic \/ r = NoMatch
           THEN /\ exit' = ExitPanic
                /\ UNCHANGED <<pc, out>>
           ELSE IF r = Diverge
           THEN /\ pc' = "get_binary"
                /\ UNCHANGED <<exit, out>>
           ELSE /\ out' = Append(out, "==== Run target")
                /\ pc' = "run_spawn"
                /\ UNCHANGED exit
    /\ UNCHANGED <<argv, flags, entries, pos, target, spawns, binary, probe>>

\* lines 323-353: command.spawn() is Ok
RunSpawn ==
    /\ pc = "run_spawn" /\ exit = Running
    /\ spawns' = Append(spawns, Spawned("run", run_command(target, binary.val, release), "running"))
    /\ pc' = "run_wait"
    /\ UNCHANGED <<argv, flags, entries, pos, target, exit, out, binary, manifest, probe>>

\* lines 323-352, 359-361: command.spawn() is an Err
RunSpawnFail ==
    /\ pc = "run_spawn" /\ exit = Running
    /\ out' = Append(out, "==== Failed to run programm")
    /\ spawns' = Append(spawns, Spawned("run", run_command(target, binary.val, release), "failed"))
    /\ pc' = "return"
    /\ UNCHANGED <<argv, flags, entries, pos, target, exit, binary, manifest, probe>>

\* RunWait ending the process with the return code of the child.
RunWait_ExitWithCode ==
    /\ pc = "run_wait" /\ exit = Running
    /\ \E o \in WaitOutcomes :
        /\ spawns' = Finished(o)
        /\ IF o.st = "signaled"
           THEN /\ exit' = ExitPanic
                /\ UNCHANGED <<pc, out>>
           ELSE /\ out' = Append(out, "==== Run return code")
                /\ IF wait_ret(o) # 0
                   THEN exit' = wait_ret(o) /\ UNCHANGED pc
                   ELSE pc' = "return" /\ UNCHANGED exit
    /\ UNCHANGED <<argv, flags, entries, pos, target, binary, manifest, probe>>

\* lines 354-358: child.wait() returns
RunWait ==
    /\ pc = "run_wait" /\ exit = Running
    /\ \E o \in WaitOutcomes :
        /\ spawns' = Finished(o)
        /\ IF o.st = "signaled"
           THEN /\ exit' = ExitPanic
                /\ UNCHANGED <<pc, out>>
           ELSE /\ out' = Append(out, "==== Run return code")
                /\ pc' = "return"
                /\ UNCHANGED exit
    /\ UNCHANGED <<argv, flags, entries, pos, target, binary, manifest, probe>>

\* line 368: Ok(())
Return ==
    /\ pc = "return" /\ exit = Running
    /\ exit' = ExitOk
    /\ UNCHANGED <<argv, flags, entries, pos, target, pc, spawns, out, binary, manifest, probe>>

Next ==
    \/ ParseArgs
    \/ ReadDir
    \/ ReadDirFail
    \/ ScanNext
    \/ ScanError
    \/ ScanEnd
    \/ LintSkip
    \/ LintNoTarget
    \/ LintSpawn
    \/ LintSpawnFail
    \/ LintWait
    \/ BuildSkip
    \/ BuildNoTarget
    \/ BuildSpawn
    \/ BuildSpawnFail
    \/ BuildWait
    \/ RunSkip
    \/ RunNoTarget
    \/ RunLookup
    \/ RunPrint
    \/ RunSpawn
    \/ RunSpawnFail
    \/ RunWait
    \/ Return

Spec == Init /\ [][Next]_vars

(***************************************************************************)
(* The pure functions applied to arguments drawn from bounded sets.        *)
(***************************************************************************)
SourceNames == {main_rs, main_cpp, main_js, main_c, main_lua, main_sh,
                index_js, test_lua, run_sh}

Targets ==
    {Make, Cargo}
        \cup {Cpp(x) : x \in SourceNames} \cup {C(x) : x \in SourceNames}
        \cup {Rust(x) : x \in SourceNames} \cup {Js(x) : x \in SourceNames}
        \cup {Lua(x) : x \in SourceNames} \cup {Bash(x) : x \in SourceNames}

Probe(fn, a, b) == [fn |-> fn, a |-> a, b |-> b, out |-> NoTarget, done |-> FALSE]

Probes ==
    {Probe("update_target", old, new) :
        old \in Targets \cup {NoTarget}, new \in Targets \cup {NoTarget}}
        \cup UNION {{Probe("get_binary", t, fs) : fs \in Lookups(t)} : t \in Targets}

InitFn ==
    /\ argv = <<s_builder>>
    /\ run = FALSE /\ build = FALSE /\ release = FALSE /\ lint = FALSE
    /\ entries = <<>> /\ pos = 0
    /\ target = NoTarget
    /\ pc = "args"
    /\ exit = Running
    /\ spawns = <<>>
    /\ out = <<>>
    /\ binary = NoMatch
    /\ manifest = NotRead
    /\ probe \in Probes

ApplyUpdateTarget ==
    /\ probe.fn = "update_target" /\ ~probe.done
    /\ probe' = [probe EXCEPT !.out = update_target(probe.a, probe.b), !.done = TRUE]
    /\ UNCHANGED <<argv, flags, entries, pos, target, pc, exit, spawns, out, binary, manifest>>

ApplyGetBinary ==
    /\ probe.fn = "get_binary" /\ ~probe.done
    /\ probe' = [probe EXCEPT !.out = get_binary(probe.a, probe.b), !.done = TRUE]
    /\ UNCHANGED <<argv, flags, entries, pos, target, pc, exit, spawns, out, binary, manifest>>

NextFn ==
    \/ ApplyUpdateTarget
    \/ ApplyGetBinary

SpecFn == InitFn /\ [][NextFn]_vars

(***************************************************************************)
(* Properties.                                                             *)
(***************************************************************************)
\* A spawn call that produced a child process.
IsChild(i) == spawns[i].st # "failed"

PhaseRank(p) == IF p = "lint" THEN 1 ELSE IF p = "build" THEN 2 ELSE 3

\* The for loop over the directory has been left.
PastScan == pc \notin {"args", "read_dir", "scan"}

\* manifest holds what the first lookup of the run phase (line 315) found.
FirstLookup ==
    /\ target.kind \in {"Make", "Cargo"}
    /\ manifest # NotRead
    /\ pc = "run" \/ (pc = "run_print" /\ exit = Running)

\* No line of the manifest matches the identifier pattern of the target.
LacksIdentifier ==
    /\ manifest.st = "file"
    /\ \A i \in DOMAIN manifest.lines :
        IF target.kind = "Make"
        THEN TargetRegex(manifest.lines[i]) = NoMatch
        ELSE NameRegex(manifest.lines[i]) = NoMatch

\* C1: once the build child has exited with a non-zero status no run
\* command is spawned; in an invocation that has a build child, a run
\* command is spawned only after that child has exited with status 0; for
\* Cargo with release the two commands are `cargo build --release` and
\* `cargo run --release`.
C1_BuildFailureSuppressesRun ==
    /\ \A i \in DOMAIN spawns :
        (spawns[i].phase = "build" /\ spawns[i].st = "exited" /\ spawns[i].code # 0)
            => /\ \A j \in DOMAIN spawns : spawns[j].phase # "run"
               /\ pc \notin {"run_print", "run_spawn", "run_wait"}
    /\ \A j \in DOMAIN spawns :
        spawns[j].phase = "run"
            => \A i \in DOMAIN spawns :
                (spawns[i].phase = "build" /\ IsChild(i))
                    => i < j /\ spawns[i].st = "exited" /\ spawns[i].code = 0
    /\ (target = Cargo /\ release)
            => \A i \in DOMAIN spawns :
                /\ spawns[i].phase = "build"
                        => spawns[i].cmd = <<s_cargo, s_build, s_dash_release>>
                /\ spawns[i].phase = "run"
                        => spawns[i].cmd = <<s_cargo, s_run, s_dash_release>>

C1_Witness ==
    /\ target = Cargo /\ release
    /\ Len(spawns) = 2
    /\ spawns[1].phase = "build" /\ spawns[1].st = "exited" /\ spawns[1].code = 0
    /\ spawns[2].phase = "run" /\ IsChild(2)

\* C2: the spawn calls of an invocation are in the order lint, build, run
\* with at most one per phase, every earlier child has completed when a
\* later command is spawned, and at most one child is alive.
C2_PhasesSequential ==
    /\ \A i, j \in DOMAIN spawns :
        i < j => /\ PhaseRank(spawns[i].phase) < PhaseRank(spawns[j].phase)
                 /\ spawns[i].st # "running"
    /\ Cardinality({i \in DOMAIN spawns : spawns[i].st = "running"}) <= 1

C2_Witness ==
    /\ Len(spawns) = 3
    /\ spawns[1].phase = "lint" /\ spawns[1].st = "exited"
    /\ spawns[2].phase = "build" /\ spawns[2].st = "exited"
    /\ spawns[3].phase = "run" /\ spawns[3].st = "running"

\* C3: whenever the listing contains Makefile the scan ends with Make,
\* whatever was scanned before it, and it ends at Makefile: no entry after
\* it is scanned.
C3_MakefileAlwaysMake ==
    /\ (pc = "scanned" /\ Makefile \in Range(entries))
            => target = Make /\ pos >= 1 /\ entries[pos] = Makefile
    /\ pc = "scan" => Makefile \notin Range(SubSeq(entries, 1, pos))

C3_Witness ==
    /\ pc = "scanned"
    /\ entries = <<main_rs, Cargo_toml, Makefile>>
    /\ target = Make

\* C4: whenever the listing contains Cargo.toml and no Makefile the scan
\* ends with Cargo, also when a source file was scanned first.
C4_CargoWithoutMakefile ==
    (pc = "scanned" /\ Cargo_toml \in Range(entries) /\ Makefile \notin Range(entries))
        => target = Cargo

C4_Witness ==
    /\ pc = "scanned"
    /\ entries = <<main_rs, Cargo_toml>>
    /\ target = Cargo

\* C5: with no target resolved and build, release or run requested, the
\* process spawns nothing, does not get past the first requested one of
\* the build and run phases, and ends with status 2 only.
C5_NoTargetExits2 ==
    (PastScan /\ target = NoTarget /\ (build \/ release \/ run))
        => /\ spawns = <<>>
           /\ pc \in {"scanned", "lint", "build", "run"}
           /\ exit \in {Running, ExitNoTarget}

C5_Witness ==
    /\ target = NoTarget
    /\ run /\ ~build /\ ~release /\ ~lint
    /\ pc = "run"
    /\ exit = ExitNoTarget
    /\ spawns = <<>>

\* C6: when the first binary-name lookup of the run phase finds a Makefile
\* or Cargo.toml without a matching identifier line, the process has ended
\* with status 2 and no run command is spawned.
C6_NoIdentifierExits2 ==
    (FirstLookup /\ LacksIdentifier)
        => /\ exit = ExitNoTarget
           /\ pc = "run"
           /\ binary = NoMatch
           /\ \A i \in DOMAIN spawns : spawns[i].phase # "run"

C6_Witness ==
    /\ target = Cargo
    /\ FirstLookup /\ LacksIdentifier
    /\ Len(spawns) = 1
    /\ spawns[1].phase = "build" /\ spawns[1].st = "exited" /\ spawns[1].code = 0
    /\ exit = ExitNoTarget

\* C7: the binary-name lookup for Make or Cargo yields "absent" without
\* aborting the process, both when no line matches and when the manifest
\* cannot be opened or read.
C7_AbsentWithoutAbort ==
    (FirstLookup /\ (LacksIdentifier \/ manifest.st \in {"unopenable", "directory"}))
        => /\ binary = NoMatch
           /\ exit # ExitPanic
           /\ pc # "get_binary"

\* C8 as stated: Cpp("main.cpp") and C("main.c") give "main"; Rust("main.rs"),
\* Js("index.js"), Lua("test.lua") and Bash("run.sh") give the path unchanged.
C8_BinaryNames_Original ==
    (probe.fn = "get_binary" /\ probe.done)
        => /\ probe.a = Cpp(main_cpp) => probe.out = Some(main_)
           /\ probe.a = C(main_c) => probe.out = Some(main_)
           /\ probe.a = Rust(main_rs) => probe.out = Some(main_rs)
           /\ probe.a = Js(index_js) => probe.out = Some(index_js)
           /\ probe.a = Lua(test_lua) => probe.out = Some(test_lua)
           /\ probe.a = Bash(run_sh) => probe.out = Some(run_sh)

\* C8 amended: Cpp("main.cpp"), C("main.c") and Rust("main.rs") give "main";
\* Js("index.js"), Lua("test.lua") and Bash("run.sh") give the path unchanged.
C8_BinaryNames ==
    (probe.fn = "get_binary" /\ probe.done)
        => /\ probe.a = Cpp(main_cpp) => probe.out = Some(main_)
           /\ probe.a = C(main_c) => probe.out = Some(main_)
           /\ probe.a = Rust(main_rs) => probe.out = Some(main_)
           /\ probe.a = Js(index_js) => probe.out = Some(index_js)
           /\ probe.a = Lua(test_lua) => probe.out = Some(test_lua)
           /\ probe.a = Bash(run_sh) => probe.out = Some(run_sh)

C8_Witness ==
    /\ probe.fn = "get_binary" /\ probe.done
    /\ probe.a = Rust(main_rs)
    /\ probe.out = Some(main_)

C10_OnlyBuildExitSuppresses ==
    [][/\ (/\ pc = "lint"
           /\ Len(spawns') = Len(spawns) + 1
           /\ spawns'[Len(spawns')].st = "failed")
            => pc' = "build" /\ exit' = Running /\ UNCHANGED flags
       /\ (/\ pc = "lint_wait"
           /\ spawns'[Len(spawns')].st = "exited"
           /\ spawns'[Len(spawns')].code # 0)
            => pc' = "build" /\ exit' = Running /\ UNCHANGED flags
       /\ (/\ pc = "build"
           /\ Len(spawns') = Len(spawns) + 1
           /\ spawns'[Len(spawns')].st = "failed")
            => pc' = "run" /\ exit' = Running /\ UNCHANGED flags
       /\ (run /\ ~run')
            => /\ pc = "build_wait"
               /\ spawns'[Len(spawns')].phase = "build"
               /\ wait_ret(spawns'[Len(spawns')]) # 0
      ]_vars

C10_Witness ==
    /\ Len(spawns) = 3
    /\ spawns[1].phase = "lint" /\ spawns[1].st = "exited" /\ spawns[1].code # 0
    /\ spawns[2].phase = "build" /\ spawns[2].st = "failed"
    /\ spawns[3].phase = "run" /\ IsChild(3)

\* C11: with no target resolved and lint the only requested action, the
\* process prints the missing-lint-target line, spawns nothing and ends
\* with status 0 only; the lint phase never ends the process for lack of a
\* target, and an exit 2 with lint requested comes from the build or run
\* phase after the lint report.
C11_LintWithoutTargetIsAdvisory ==
    /\ (PastScan /\ target = NoTarget /\ lint /\ ~build /\ ~release /\ ~run)
            => /\ spawns = <<>>
               /\ exit \in {Running, ExitOk}
               /\ pc \in {"scanned", "lint", "build", "run", "return"}
               /\ pc \in {"build", "run", "return"} => out = <<"==== No lint target found">>
    /\ (pc = "lint" /\ target = NoTarget) => exit = Running
    /\ (target = NoTarget /\ lint /\ exit = ExitNoTarget)
            => /\ pc \in {"build", "run"}
               /\ Len(out) = 2
               /\ out[1] = "==== No lint target found"

C11_Witness ==
    /\ target = NoTarget
    /\ lint /\ ~build /\ ~release /\ ~run
    /\ pc = "return"
    /\ exit = ExitOk
    /\ spawns = <<>>
    /\ out = <<"==== No lint target found">>

\* The names of the listings that are neither a manifest nor a source file
\* the scan recognizes.
UnrecognizedNames == {main_txt, README_md}

\* C12: a listing with exactly one of main.rs, main.cpp, main.js, main.c,
\* main.lua, main.sh, no manifest and otherwise unrecognized names only
\* resolves to Rust, Cpp, Js, C, Lua, Bash respectively, carrying that file
\* name, wherever the file stands in the listing.
C12_SingleSourceResolves ==
    pc = "scanned"
        => \A p \in {<<main_rs, Rust(main_rs)>>, <<main_cpp, Cpp(main_cpp)>>,
                     <<main_js, Js(main_js)>>, <<main_c, C(main_c)>>,
                     <<main_lua, Lua(main_lua)>>, <<main_sh, Bash(main_sh)>>} :
            (/\ p[1] \in Range(entries)
             /\ Range(entries) \ {p[1]} \subseteq UnrecognizedNames)
                => target = p[2]

C12_Witness ==
    /\ pc = "scanned"
    /\ entries = <<README_md, main_txt, main_sh>>
    /\ target = Bash(main_sh)

\* C13: every command the lint phase spawns for a Make target is
\* `make lint`, with or without release.
C13_MakeLintCommand ==
    \A i \in DOMAIN spawns :
        (spawns[i].phase = "lint" /\ target = Make) => spawns[i].cmd = <<s_make, s_lint>>

\* The phases after the build block.
PastBuild == pc \in {"run", "get_binary", "run_print", "run_spawn", "run_wait", "return"}

\* C14: a build command is spawned only with build or release among the
\* arguments; with one of them the build block is entered before the run
\* block (a build spawn precedes every run spawn), release selects the
\* release variant of the command, and without a target the process ends
\* in the build block with status 2 after the no-build-target line.
C14_BuildPhaseOnBuildOrRelease ==
    /\ (\E i \in DOMAIN spawns : spawns[i].phase = "build") => (build \/ release)
    /\ (PastBuild /\ (build \/ release))
            => \E i \in DOMAIN spawns :
                /\ spawns[i].phase = "build"
                /\ \A j \in DOMAIN spawns : spawns[j].phase = "run" => i < j
    /\ \A i \in DOMAIN spawns :
        (spawns[i].phase = "build" /\ release)
            => /\ target = Make => spawns[i].cmd = <<s_make, s_release>>
               /\ target = Cargo => spawns[i].cmd = <<s_cargo, s_build, s_dash_release>>
               /\ target.kind \in {"Cpp", "C"}
                    => spawns[i].cmd[Len(spawns[i].cmd)] = s_O3
    /\ (PastScan /\ target = NoTarget /\ (build \/ release) /\ exit # Running)
            => /\ exit = ExitNoTarget
               /\ pc = "build"
               /\ out[Len(out)] = "==== No build target found"

C14_Witness ==
    /\ ~build /\ release /\ run
    /\ target = Make
    /\ Len(spawns) = 2
    /\ spawns[1].phase = "build" /\ spawns[1].cmd = <<s_make, s_release>>
    /\ spawns[2].phase = "run"

\* The extension of a name: what follows its last '.'.
RECURSIVE LastDot(_, _)
LastDot(name, i) ==
    IF i = 0 \/ name[i] = "." THEN i ELSE LastDot(name, i - 1)

Extension(name) == SubSeq(name, LastDot(name, Len(name)) + 1, Len(name))

\* A name the stem branch of the scan turns into a kind.
RecognizedSource(name) ==
    /\ \E stem \in {<<"m", "a", "i", "n">>, <<"i", "n", "d", "e", "x">>, <<"t", "e", "s", "t">>} :
        /\ Len(name) > Len(stem)
        /\ SubSeq(name, 1, Len(stem) + 1) = Append(stem, ".")
    /\ Extension(name) \in {<<"j", "s">>, <<"c", "p", "p">>, <<"c", "x", "x">>, <<"l", "u", "a">>,
                            <<"b", "a", "s", "h">>, <<"s", "h">>, <<"r", "s">>, <<"c">>}

\* C15: with no Makefile and no Cargo.toml among the entries scanned so
\* far, the current target is None when none of them is a recognized
\* source, and otherwise carries the first recognized source among them:
\* earlier unrecognized entries do not block it, later ones do not replace
\* it.
C15_FirstRecognizedSourceWins ==
    (/\ pc \in {"scan", "scanned"}
     /\ Makefile \notin Range(SubSeq(entries, 1, pos))
     /\ Cargo_toml \notin Range(SubSeq(entries, 1, pos)))
        => LET R == {i \in 1..pos : RecognizedSource(entries[i])} IN
           IF R = {} THEN target = NoTarget
           ELSE /\ target # NoTarget
                /\ target.file = entries[CHOOSE i \in R : \A j \in R : i <= j]

C15_Witness ==
    /\ pc = "scanned"
    /\ entries = <<main_txt, main_c, main_rs>>
    /\ target = C(main_c)

\* None < extension-based kind < Cargo < Make.
KindRank(t) ==
    IF t = NoTarget THEN 0
    ELSE IF t = Make THEN 3
    ELSE IF t = Cargo THEN 2
    ELSE 1

\* C16: in every step the current target keeps its value or moves upward
\* in the order None < extension-based kind < Cargo < Make, and it is one
\* value of Option<Target>.
C16_TargetMovesUpward ==
    [][/\ KindRank(target') >= KindRank(target)
       /\ KindRank(target') = KindRank(target) => target' = target
       /\ target'.kind \in {"None", "Make", "Cargo", "Cpp", "C", "Rust", "Js", "Lua", "Bash"}
      ]_vars

C16_Witness ==
    /\ pc = "scan"
    /\ pos = 3
    /\ entries = <<main_c, main_txt, Cargo_toml>>
    /\ target = Cargo

\* The fixed text of the lines that report the result of a phase.
ResultLines ==
    {"==== Linting Done", "==== Linting Failed", "==== Build Successfull",
     "==== Build Failed", "==== Run return code"}

WaitPc(phase) ==
    IF phase = "lint" THEN "lint_wait"
    ELSE IF phase = "build" THEN "build_wait"
    ELSE "run_wait"

\* C17: when a child has ended without an exit code, the process has
\* ended at the wait of that phase with the panic status (neither 0 nor
\* 2), that spawn is the last one, and the last line printed is not a
\* result line.
C17_SignalAborts ==
    \A i \in DOMAIN spawns :
        spawns[i].st = "signaled"
            => /\ i = Len(spawns)
               /\ pc = WaitPc(spawns[i].phase)
               /\ exit = ExitPanic
               /\ exit \notin {ExitOk, ExitNoTarget}
               /\ out[Len(out)] \notin ResultLines

C17_Witness ==
    /\ lint /\ build /\ run
    /\ Len(spawns) = 1
    /\ spawns[1].phase = "lint" /\ spawns[1].st = "signaled"
    /\ exit = ExitPanic

\* The latest manifest lookup, if any, found a matching identifier line.
BinaryAvailable ==
    \/ manifest = NotRead
    \/ /\ manifest.st = "file"
       /\ \E i \in DOMAIN manifest.lines :
            IF target.kind = "Make"
            THEN TargetRegex(manifest.lines[i]) # NoMatch
            ELSE NameRegex(manifest.lines[i]) # NoMatch

\* C18: when a target is resolved, every binary-name lookup found a name
\* and no child ended without an exit code, the process ends with status
\* 0 only, whatever the exit codes and spawn failures of the phases.
C18_ExitZeroWithTarget ==
    (/\ PastScan /\ target # NoTarget
     /\ exit # Running
     /\ BinaryAvailable
     /\ \A i \in DOMAIN spawns : spawns[i].st # "signaled")
        => exit = ExitOk /\ pc = "return"

C18_Witness ==
    /\ exit = ExitOk
    /\ Len(spawns) = 3
    /\ spawns[1].st = "exited" /\ spawns[1].code # 0
    /\ spawns[2].st = "failed"
    /\ spawns[3].st = "exited" /\ spawns[3].code # 0

\* C19: once the first lookup of the run phase has found the binary name
\* of a Make or Cargo target, the process does not abort before the spawn.
C19_NoAbortAfterLookup ==
    (pc = "run_print" /\ target.kind \in {"Make", "Cargo"}) => exit = Running

(***************************************************************************)
(* The invocation under fair scheduling: the process keeps executing while *)
(* it has a step to take, and every child it waits for terminates.  At    *)
(* pc = "get_binary" the process is inside the line loop of get_binary on  *)
(* a manifest that is a directory: the loop spins without changing the     *)
(* state of main, so the invocation is running and takes no step.          *)
(***************************************************************************)
FairSpec == Spec /\ WF_vars(Next)

HasRunningChild == \E i \in DOMAIN spawns : spawns[i].st = "running"

\* C20: when every spawned child terminates the invocation ends, having
\* spawned at most three children; while a child has not terminated the
\* only step of the invocation is the return of that child's wait.
C20_TerminatesWhenChildrenDo ==
    /\ <>(exit # Running)
    /\ [](Len(spawns) <= 3)
    /\ [][HasRunningChild
            => /\ Len(spawns') = Len(spawns)
               /\ spawns'[Len(spawns')].st # "running"]_vars

====
